---- MODULE Spec2Model ----
(***************************************************************************)
(* A model of webpptx (src/index.py, src/gif_compositor.py): the /upload   *)
(* handler that validates a submission and enqueues its two jobs, the      *)
(* single worker thread that executes them, and the two polling handlers   *)
(* (/form-results, /animation-results) with their deferred deletion lists. *)
(*                                                                         *)
(* Files are named by the clock: str(time.time()) hashed for documents,    *)
(* images and job ids, int(time.time()) for response archives.  md5 is     *)
(* injective for the model's purposes, so a name is the clock reading it   *)
(* was made from: equal readings give equal names.  time.time() is the     *)
(* wall clock: its resolution is finite and it may be set back, so a later *)
(* reading may equal an earlier one.  The model keeps readings             *)
(* nondecreasing and lets any of them repeat.                              *)
(***************************************************************************)
EXTENDS Integers, Sequences, FiniteSets, TLC

\* ------------------------------------------------------------------ bounds
MaxClock == 2          \* clock readings are 0..MaxClock
TicksPerSecond == 2    \* distinct time.time() readings within one int(time.time())
MaxPages == 2          \* slides of a submitted document
MaxImages == 1         \* files attached to a submission beside the document
MaxMedia == 1          \* files under ppt/media of a submitted document

MaxGifs == 2           \* animated pictures on one slide
MaxDelay == 3          \* frame delays are 0..MaxDelay
MaxFrames == 2         \* frames of one GIF are 1..MaxFrames
MaxX == 1              \* a picture is placed on one of the cells 0..MaxX of the slide

Absent == -1           \* disk[p] of a path that does not exist

Submitters == {"s1", "s2"}           \* request threads of /upload, one request each
Kinds == {"form", "animate"}         \* the two polling routes
Pollers == Kinds \X {1, 2}           \* request threads serving the polling routes

PathKinds == {"pptx", "image", "job", "notesmedia", "extracted", "response"}
Paths == PathKinds \X (0..MaxClock)

VARIABLES
  now,                          \* the last value time.time() returned
  disk,                         \* TEMP_DIR: path -> Absent, 0 (a file) or entries (a directory)
  job_queue,                    \* worker.job_queue
  available_results_form,       \* worker.available_results_form
  available_results_animation,  \* worker.available_results_animation
  to_delete_form,               \* the module-level list to_delete_form
  to_delete_animate,            \* the module-level list to_delete_animate
  worker,                       \* the worker thread: where it is in run() and its job
  submit,                       \* each /upload request thread
  poll,                         \* each polling request thread
  pushed,                       \* history: the jobs in the order they were put on job_queue
  dequeued,                     \* history: the jobs in the order run() got them
  produced,                     \* history: per kind, the results in the order they were put
  served,                       \* history: the results written to an archive, in order
  compose,                      \* the slide execute_animation_job is compositing
  request                       \* history: the request each /upload thread was sent

vars == <<now, disk, job_queue, available_results_form, available_results_animation,
          to_delete_form, to_delete_animate, worker, submit, poll,
          pushed, dequeued, produced, served, compose, request>>

\* ------------------------------------------------------------------ helpers
\* int(time.time()): the whole second a reading lies in.
Second(t) == t \div TicksPerSecond

Exists(d, p) == d[p] # Absent

\* Nondecreasing sequences of n clock readings, none before lo.
Readings(lo, n) ==
  {q \in [1..n -> lo..MaxClock] : \A i \in 1..n : \A j \in i..n : q[i] <= q[j]}

Last(q, default) == IF Len(q) = 0 THEN default ELSE q[Len(q)]

\* queue.Queue is first in, first out: put() adds at the back, get() takes the
\* front.  get(q) is the item taken and the queue left behind.
put(q, x) == Append(q, x)

\* (mutant) A queue.LifoQueue: get() takes the item put last.
get_newest(q) == [item |-> q[Len(q)], rest |-> SubSeq(q, 1, Len(q) - 1)]

get(q) == [item |-> Head(q), rest |-> Tail(q)]

\* How the history variables name a job: its submission, its type and its id.
Token(j) == <<j.sub, j.job_type, j.job_id>>

NoJob == [job_type |-> "-", job_id |-> 0, hashpath |-> 0, image_files |-> <<>>,
          pages |-> 0, media |-> 0, zero_delay |-> 0, sub |-> "-"]

\* No slide is being composited.
NoSlide == [pc |-> "idle", gifs |-> <<>>, frame_counter |-> -1, sorted |-> <<>>,
            factors |-> <<>>, frame_count |-> 0, seeks |-> <<>>, frames |-> <<>>,
            duration |-> 0]

\* No request was recorded.
NoRequest == [key |-> "-", pres |-> "-", attached |-> 0, images |-> 0,
              pages |-> 0, media |-> 0, zero_delay |-> 0]

IdleSubmit == [pc |-> "idle", job |-> NoJob, resp |-> "-"]

\* A polling thread between requests.  i, n and response_path are the handler's
\* locals.  The other fields are history: packaged, the results this request wrote
\* to its archive; found, those in the queue when the request found it non-empty;
\* due, the paths the thread's previous request answered with and scheduled;
\* key_ok, whether the request passed the authentication.
IdlePoll == [pc |-> "idle", i |-> 0, n |-> 0, response_path |-> 0,
             packaged |-> <<>>, found |-> <<>>, due |-> {}, resp |-> "-",
             key_ok |-> FALSE]

Init ==
  /\ now = 0
  /\ disk = [p \in Paths |-> Absent]
  /\ job_queue = <<>>
  /\ available_results_form = <<>>
  /\ available_results_animation = <<>>
  /\ to_delete_form = <<>>
  /\ to_delete_animate = <<>>
  /\ worker = [pc |-> "get", job |-> NoJob]
  /\ submit = [s \in Submitters |-> IdleSubmit]
  /\ poll = [p \in Pollers |-> IdlePoll]
  /\ pushed = <<>>
  /\ dequeued = <<>>
  /\ produced = [k \in Kinds |-> <<>>]
  /\ served = <<>>
  /\ compose = NoSlide
  /\ request = [s \in Submitters |-> NoRequest]

\* ------------------------------------------------------------------ /upload
queues == <<job_queue, available_results_form, available_results_animation,
            to_delete_form, to_delete_animate>>
history == <<pushed, dequeued, produced, served>>

\* A request to /upload.
\*   key:      the 'key' form field: "absent", "wrong" or "right"
\*   pres:     the 'pres' file: "missing", "not_pptx" (empty or disallowed file
\*             name), "unreadable" (python-pptx cannot open it) or "ok"
\*   attached: the files of the request other than 'pres'
\*   images:   those of them whose name passes allowable_image
\*   pages, media: the document's slides (at least one) and its files under
\*             ppt/media (0: the archive holds no such directory)
\*   zero_delay: the first slide that holds animated GIFs of which the fastest
\*             has a frame delay of 0 (0: no slide does)
Requests ==
  [key : {"absent", "wrong", "right"},
   pres : {"missing", "not_pptx", "unreadable", "ok"},
   attached : 0..MaxImages, images : 0..MaxImages,
   pages : 1..MaxPages, media : 0..MaxMedia, zero_delay : 0..MaxPages]

\* What animate_presentation answers to a request: an HTTP error code or "jobID".
Outcome(req) ==
  IF req.key # "right" THEN "403"
  ELSE IF req.pres = "missing" THEN "400"
  ELSE IF req.pres = "not_pptx" THEN "422"
  ELSE IF req.attached = 0 THEN "400"
  ELSE IF req.pres = "unreadable" THEN "422"
  ELSE IF req.images = 0 THEN "500"
  ELSE "jobID"

\* (mutant) A handler that saves the document before it checks the key.
SavesDocumentUnchecked(req) == req.pres \in {"unreadable", "ok"}

\* Whether the handler gets as far as saving the document (line 398).
SavesDocument(req) == req.key = "right" /\ req.pres \in {"unreadable", "ok"}

\* Whether it gets as far as saving the attached images (lines 415-425).
SavesImages(req) == SavesDocument(req) /\ req.attached > 0

\* The handler has answered r, and its request is over.
Reply(r) == [IdleSubmit EXCEPT !.pc = "done", !.resp = r]

\* The same, for a request whose jobs were enqueued (the job is kept as history).
Accepted(j) == [pc |-> "done", job |-> j, resp |-> "jobID"]

\* Lines 381-436 for the request req: authentication, validation, and the files
\* saved on the way.
Validate(s, req) ==
  /\ req.images <= req.attached
  /\ req.zero_delay <= req.pages
  /\ LET out == Outcome(req) IN
     \E t1 \in now..MaxClock :
     \E names \in Readings(t1, IF SavesImages(req) THEN req.images ELSE 0) :
       /\ now' = IF SavesDocument(req) THEN Last(names, t1) ELSE now
       /\ disk' = [p \in Paths |->
                    IF SavesDocument(req) /\ p = <<"pptx", t1>> THEN 0
                    ELSE IF \E i \in 1..Len(names) : p = <<"image", names[i]>> THEN 0
                    ELSE disk[p]]
       /\ submit' = [submit EXCEPT ![s] =
            IF out \in {"jobID", "500"}
            THEN [pc |-> "parsed",
                  job |-> [job_type |-> "A", job_id |-> 0, hashpath |-> t1,
                           image_files |-> names, pages |-> req.pages,
                           media |-> req.media, zero_delay |-> req.zero_delay,
                           sub |-> s],
                  resp |-> "-"]
            ELSE Reply(out)]
  /\ UNCHANGED <<compose, queues, worker, poll, history>>

\* Thread s is sent its request.
Upload(s) ==
  /\ submit[s].pc = "idle"
  /\ \E req \in Requests : Validate(s, req) /\ UNCHANGED request

\* The same, with the request kept as history.
Submit(s) ==
  /\ submit[s].pc = "idle"
  /\ \E req \in Requests : Validate(s, req) /\ request' = [request EXCEPT ![s] = req]

\* Lines 438-443: the job id, and enqueue_job('A', ...), which is never reached
\* when no attached file was an image: hashpath_image is then unbound.
EnqueueAnimation(s) ==
  /\ submit[s].pc = "parsed"
  /\ \E t \in now..MaxClock :
       /\ now' = t
       /\ IF Len(submit[s].job.image_files) = 0
          THEN /\ submit' = [submit EXCEPT ![s] = Reply("500")]
               /\ UNCHANGED <<job_queue, pushed>>
          ELSE LET j == [submit[s].job EXCEPT !.job_id = t] IN
               /\ job_queue' = put(job_queue, j)
               /\ pushed' = Append(pushed, Token(j))
               /\ submit' = [submit EXCEPT ![s] = [@ EXCEPT !.pc = "enqueued", !.job = j]]
  /\ UNCHANGED <<compose, request, disk, available_results_form, available_results_animation,
                 to_delete_form, to_delete_animate, worker, poll, dequeued, produced, served>>

\* (mutant) The notes/media job under an id of its own.
NotesJobOwnId(j) ==
  [j EXCEPT !.job_type = "N", !.image_files = <<>>, !.job_id = (@ + 1) % (MaxClock + 1)]

\* The job of enqueue_job('N', job_id, hashpath, presentation=p): the id and the
\* document of the animation job j, and no images.
NotesJob(j) == [j EXCEPT !.job_type = "N", !.image_files = <<>>]

\* Lines 444-446: enqueue_job('N', ...) and the answer.
EnqueueNotes(s) ==
  /\ submit[s].pc = "enqueued"
  /\ LET j == NotesJob(submit[s].job) IN
       /\ job_queue' = put(job_queue, j)
       /\ pushed' = Append(pushed, Token(j))
  /\ submit' = [submit EXCEPT ![s] = Accepted(submit[s].job)]
  /\ UNCHANGED <<compose, request, now, disk, available_results_form, available_results_animation,
                 to_delete_form, to_delete_animate, worker, poll, dequeued, produced, served>>

animate_presentation(s) == Upload(s) \/ EnqueueAnimation(s) \/ EnqueueNotes(s)

\* ------------------------------------------------------------------ worker
\* (mutant) A worker that takes the next job while it still runs one.
AtGetOrRunning == worker.pc \in {"get", "run"}

\* The worker thread is at job_queue.get(): while True brings it there only when
\* the job before has returned.
AtGet == worker.pc = "get"

\* run(), lines 347-354: block on job_queue.get() and take the job's fields.
WorkerGet ==
  /\ AtGet
  /\ job_queue # <<>>
  /\ worker' = [pc |-> "run", job |-> get(job_queue).item]
  /\ job_queue' = get(job_queue).rest
  /\ dequeued' = Append(dequeued, Token(get(job_queue).item))
  /\ UNCHANGED <<compose, request, now, disk, available_results_form, available_results_animation,
                 to_delete_form, to_delete_animate, submit, poll, pushed, produced, served>>

\* An exception that leaves run(): the thread ends with the job it held.
Dies == worker' = [worker EXCEPT !.pc = "dead"]

\* (mutant) A loop that goes on to the next slide when a slide has no image.
NoBadSlide(j, d) == 0

\* The first slide (1-based) of the loop of lines 296-334 that raises: the slide has
\* no image (IndexError, then abort(422)), its image file is gone, or compose_gifs
\* divides by the frame delay 0 of its fastest GIF; 0 when none does.
FirstBadSlide(j, d) ==
  LET bad == {k \in 1..j.pages :
                \/ k > Len(j.image_files)
                \/ ~Exists(d, <<"image", j.image_files[k]>>)
                \/ k = j.zero_delay}
  IN IF bad = {} THEN 0 ELSE CHOOSE k \in bad : \A m \in bad : k <= m

\* for i in self.image_files: os.remove(i) (line 337): the disk after it, and
\* whether every remove found its file.
RECURSIVE RemoveImages(_, _)
RemoveImages(files, d) ==
  IF files = <<>> THEN [disk |-> d, ok |-> TRUE]
  ELSE IF ~Exists(d, <<"image", Head(files)>>) THEN [disk |-> d, ok |-> FALSE]
  ELSE RemoveImages(Tail(files), [d EXCEPT ![<<"image", Head(files)>>] = Absent])

execute_animation_job ==
  /\ worker.pc = "run"
  /\ worker.job.job_type = "A"
  /\ LET j == worker.job
         hashpath == <<"pptx", j.hashpath>>
         SLIDES_DIRECTORY == <<"job", j.job_id>>
         bad == FirstBadSlide(j, disk)
     IN
     IF ~Exists(disk, hashpath) \/ Exists(disk, SLIDES_DIRECTORY)
     THEN \* pptx.Presentation(hashpath) or os.mkdir raises
          /\ Dies
          /\ UNCHANGED <<disk, available_results_animation, to_delete_animate, produced>>
     ELSE IF bad # 0
     THEN \* the slides before the bad one were written
          /\ Dies
          /\ disk' = [disk EXCEPT ![SLIDES_DIRECTORY] = bad - 1]
          /\ UNCHANGED <<available_results_animation, to_delete_animate, produced>>
     ELSE LET written == [disk EXCEPT ![SLIDES_DIRECTORY] = j.pages]
              removed == RemoveImages(j.image_files, written)
          IN
          /\ disk' = removed.disk
          /\ IF removed.ok
             THEN /\ to_delete_animate' = Append(to_delete_animate, hashpath)
                  /\ available_results_animation' =
                       put(available_results_animation,
                              [job_id |-> j.job_id, content_path |-> SLIDES_DIRECTORY,
                               sub |-> j.sub, job_type |-> j.job_type])
                  /\ produced' = [produced EXCEPT !["animate"] = Append(@, Token(j))]
                  /\ worker' = [pc |-> "get", job |-> NoJob]
             ELSE /\ Dies
                  /\ UNCHANGED <<available_results_animation, to_delete_animate, produced>>
  /\ UNCHANGED <<compose, request, now, job_queue, available_results_form, to_delete_form,
                 submit, poll, pushed, dequeued, served>>

execute_notes_media_job ==
  /\ worker.pc = "run"
  /\ worker.job.job_type = "N"
  /\ LET j == worker.job
         hashpath == <<"pptx", j.hashpath>>
         extracted == <<"extracted", j.hashpath>>
         response_path == <<"notesmedia", j.job_id>>
     IN
     IF ~Exists(disk, hashpath)
     THEN \* zipfile.ZipFile(hashpath) raises
          /\ Dies
          /\ UNCHANGED <<disk, available_results_form, produced>>
     ELSE IF j.media = 0 \/ Exists(disk, response_path)
     THEN \* shutil.copytree raises: no ppt/media to copy, or the target exists
          /\ Dies
          /\ disk' = [disk EXCEPT ![extracted] = 1]
          /\ UNCHANGED <<available_results_form, produced>>
     ELSE /\ disk' = [disk EXCEPT ![response_path] = j.media + 1, ![extracted] = Absent]
          /\ available_results_form' =
               put(available_results_form,
                      [job_id |-> j.job_id, content_path |-> response_path,
                       sub |-> j.sub, job_type |-> j.job_type])
          /\ produced' = [produced EXCEPT !["form"] = Append(@, Token(j))]
          /\ worker' = [pc |-> "get", job |-> NoJob]
  /\ UNCHANGED <<compose, request, now, job_queue, available_results_animation, to_delete_form,
                 to_delete_animate, submit, poll, pushed, dequeued, served>>

run == WorkerGet \/ execute_animation_job \/ execute_notes_media_job

\* ------------------------------------------------------------------ compositing
\* One slide of the loop of execute_animation_job (lines 296-329) and the call of
\* compose_gifs it makes (src/gif_compositor.py).  A picture is what the code reads
\* of a GIFContainer: buf (its frames; the n-th picture of the slide has its own),
\* framedelay, max_index (the number of frames) and its place.  The slide is a row
\* of cells and a picture covers one of them: two pictures overlap when they are
\* on the same cell.
GIFContainer(buf) ==
  [buf : {buf}, framedelay : 0..MaxDelay, max_index : 1..MaxFrames, x : 0..MaxX]

\* The slides with n pictures, in the order of i.shapes.
RECURSIVE SlidesOf(_)
SlidesOf(n) ==
  IF n = 0 THEN {<<>>}
  ELSE {Append(s, g) : s \in SlidesOf(n - 1), g \in GIFContainer(n)}

Slides == UNION {SlidesOf(n) : n \in 0..MaxGifs}

\* Lines 298 and 317-318: the largest n_frames of the slide's pictures, -1 without any.
RECURSIVE frame_counter(_)
frame_counter(gifs) ==
  IF gifs = <<>> THEN -1
  ELSE LET before == frame_counter(SubSeq(gifs, 1, Len(gifs) - 1))
           n_frames == gifs[Len(gifs)].max_index
       IN IF n_frames > before THEN n_frames ELSE before

\* s, sorted by framedelay, with g put behind every picture that is not slower.
InsertByDelay(s, g) ==
  LET k == Cardinality({x \in 1..Len(s) : s[x].framedelay <= g.framedelay})
  IN SubSeq(s, 1, k) \o <<g>> \o SubSeq(s, k + 1, Len(s))

\* sorted(gifs, key=lambda g: g.framedelay) (line 324): a stable sort, pictures of
\* equal delay keep the order they came in.
RECURSIVE sorted(_)
sorted(gifs) ==
  IF gifs = <<>> THEN <<>>
  ELSE InsertByDelay(sorted(SubSeq(gifs, 1, Len(gifs) - 1)), gifs[Len(gifs)])

\* len(gifs) > 0 and frame_counter > 1 (line 325): the slide is composited;
\* otherwise its image is copied as it is (line 329).
Animated(gifs) == Len(gifs) > 0 /\ frame_counter(gifs) > 1

\* (mutant) Rounding the ratio of the delays up.
factor_rounded_up(i, first) ==
  (i.framedelay + first.framedelay - 1) \div first.framedelay

\* i.framedelay // gif_data[0].framedelay (gif_compositor.py line 38).
framerate_normalization_factor(i, first) == i.framedelay \div first.framedelay

\* The division of line 38 raises ZeroDivisionError.
Raises(gif_data) == gif_data[1].framedelay = 0

factors(gif_data) ==
  [k \in 1..Len(gif_data) |-> framerate_normalization_factor(gif_data[k], gif_data[1])]

\* (mutant) A loop that leaves frame_count as the caller gave it.
frame_count_as_given(gif_data, f, k, frame_count) == frame_count

\* Lines 39-40 for the pictures from the k-th on: frame_count after the loop.
RECURSIVE frame_budget(_, _, _, _)
frame_budget(gif_data, f, k, frame_count) ==
  IF k > Len(gif_data) THEN frame_count
  ELSE frame_budget(gif_data, f, k + 1,
                    IF gif_data[k].max_index * f[k] > frame_count
                    THEN f[k] * gif_data[k].max_index ELSE frame_count)

\* (mutant) An animation that starts over when it has ended.
seek_wrapping(j, f, i) == (i \div f) % j.max_index

\* (mutant) The test of line 51 without the normalization factor.
seek_unstretched(j, f, i) == IF i < j.max_index THEN i \div f ELSE j.max_index - 1

\* Lines 51-54: the frame of picture j shown in frame i of the composite.
seek(j, f, i) == IF i < j.max_index * f THEN i \div f ELSE j.max_index - 1

\* The argument of every gif.seek: per frame of the composite, per picture.
Seeks(gif_data, f, frame_count) ==
  [i \in 1..frame_count |-> [k \in 1..Len(gif_data) |-> seek(gif_data[k], f[k], i - 1)]]

\* A pixel: the picture (its buf) and the frame of it that was pasted there last;
\* <<0, 0>> where the slide's image shows.
Background == <<0, 0>>

\* Lines 46-60: the image, with each picture's frame pasted over it in the order
\* of gif_data: on a cell, the last picture pasted there shows.
Frames(gif_data, seeks) ==
  [i \in 1..Len(seeks) |->
     [c \in 0..MaxX |->
        LET on == {k \in 1..Len(gif_data) : gif_data[k].x = c}
        IN IF on = {} THEN Background
           ELSE LET top == CHOOSE k \in on : \A m \in on : m <= k
                IN <<gif_data[top].buf, seeks[i][top]>>]]

\* What compose_gifs(image_file, gif_data, result_file, frame_count) saves.
Composite(gif_data, frame_count) ==
  LET f == factors(gif_data)
      budget == frame_budget(gif_data, f, 1, frame_count)
      seeks == Seeks(gif_data, f, budget)
  IN [factors |-> f, frame_count |-> budget, seeks |-> seeks,
      frames |-> Frames(gif_data, seeks), duration |-> gif_data[1].framedelay]

program == <<request, now, disk, job_queue, available_results_form, available_results_animation,
             to_delete_form, to_delete_animate, worker, submit, poll,
             pushed, dequeued, produced, served>>

\* Lines 296-321: the next slide of the loop, and the pictures found on it.
Shapes ==
  /\ compose.pc = "idle"
  /\ \E gifs \in Slides :
       compose' = [NoSlide EXCEPT !.pc = "shapes", !.gifs = gifs,
                                  !.frame_counter = frame_counter(gifs)]
  /\ UNCHANGED program

\* Lines 323-329: the pictures sorted, and the slide's image copied when there
\* is nothing to animate.
Sort ==
  /\ compose.pc = "shapes"
  /\ compose' = [compose EXCEPT !.sorted = sorted(compose.gifs),
                                !.pc = IF Animated(compose.gifs) THEN "compose"
                                       ELSE "static"]
  /\ UNCHANGED program

\* gif_compositor.py lines 37-70.
compose_gifs ==
  /\ compose.pc = "compose"
  /\ IF Raises(compose.sorted)
     THEN compose' = [compose EXCEPT !.pc = "raised"]
     ELSE LET out == Composite(compose.sorted, compose.frame_counter) IN
          compose' = [compose EXCEPT !.pc = "saved", !.factors = out.factors,
                                     !.frame_count = out.frame_count,
                                     !.seeks = out.seeks, !.frames = out.frames,
                                     !.duration = out.duration]
  /\ UNCHANGED program

\* Line 334: the slide is done, on to the next.
NextSlide ==
  /\ compose.pc \in {"static", "saved"}
  /\ compose' = NoSlide
  /\ UNCHANGED program

\* ------------------------------------------------------------------ polling
\* (mutant) The deletion list as it was before the two routes got one each: a
\* single list, read by both.
ToDeleteShared(k) == to_delete_form

ToDelete(k) == IF k = "form" THEN to_delete_form ELSE to_delete_animate
Results(k) == IF k = "form" THEN available_results_form ELSE available_results_animation

\* (mutant) Both routes writing the one list there was at first.
SetToDeleteShared(k, l) == to_delete_form' = l /\ UNCHANGED to_delete_animate

SetToDelete(k, l) ==
  IF k = "form" THEN to_delete_form' = l /\ UNCHANGED to_delete_animate
  ELSE to_delete_animate' = l /\ UNCHANGED to_delete_form

SetResults(k, q) ==
  IF k = "form" THEN available_results_form' = q /\ UNCHANGED available_results_animation
  ELSE available_results_animation' = q /\ UNCHANGED available_results_form

\* (mutant) A handler that lets every request pass.
ForbiddenNever(key_ok) == FALSE

\* Lines 477-480 and 523-526: abort(403) when the request's 'key' is not API_KEY,
\* or when it has none (KeyError).
Forbidden(key_ok) == ~key_ok

\* (mutant) A handler that goes on to build an archive whatever the buffer holds.
AlwaysSomethingReady(k) == FALSE

\* qsize() == 0 (lines 482 and 528).
NothingReady(k) == Len(Results(k)) = 0

Remove(l, i) == SubSeq(l, 1, i - 1) \o SubSeq(l, i + 1, Len(l))

Repeat(x, n) == [i \in 1..n |-> x]

\* The handler returns r: an HTTP error code, "" (nothing ready) or "archive".  The
\* thread keeps the request's history until its next request begins.
Answer(p, r) ==
  poll' = [poll EXCEPT ![p] = [@ EXCEPT !.pc = "done", !.resp = r, !.i = 0, !.n = 0]]

\* The paths a finished request answered with and scheduled for deletion: the
\* directories it packaged and its archive.
AnsweredWith(q) ==
  IF q.resp = "archive"
  THEN {q.packaged[x].content_path : x \in 1..Len(q.packaged)}
         \cup {<<"response", q.response_path>>}
  ELSE {}

\* The start of a polling request: range(len(to_delete)) is evaluated once, before
\* the loop.  (A request whose User-Agent names a search crawler is answered 404
\* before anything is read or written: it is no step of the model.)
PollBegin(p) ==
  /\ poll[p].pc \in {"idle", "done"}
  /\ poll' = [poll EXCEPT ![p] = [IdlePoll EXCEPT !.pc = "sweep",
                                                   !.n = Len(ToDelete(p[1])),
                                                   !.due = AnsweredWith(poll[p])]]
  /\ UNCHANGED <<compose, request, now, disk, queues, worker, submit, history>>

\* os.path.isdir: job directories and notes/media directories are directories,
\* documents, images and archives are files.
IsDir(path) == path[1] \in {"job", "notesmedia", "extracted"}

\* Lines 461-464 and 508-511: one iteration of for i in range(len(to_delete)), up
\* to the choice between rmtree and remove.  The list is shared and read anew at
\* every to_delete[i]: an index past its end raises IndexError, which is caught; a
\* path that does not exist is left in the list.
Sweep(p) ==
  /\ poll[p].pc = "sweep"
  /\ poll[p].i < poll[p].n
  /\ LET l == ToDelete(p[1])
         i == poll[p].i + 1
     IN poll' = [poll EXCEPT ![p] =
          IF i <= Len(l) /\ Exists(disk, l[i])
          THEN [@ EXCEPT !.pc = IF IsDir(l[i]) THEN "rmtree" ELSE "remove"]
          ELSE [@ EXCEPT !.i = @ + 1]]
  /\ UNCHANGED <<compose, request, now, disk, queues, worker, submit, history>>

\* Lines 465-469 and 512-516: shutil.rmtree(to_delete[i]) or os.remove(to_delete[i]),
\* then del to_delete[i], on what the list holds at index i now.  IndexError and
\* FileNotFoundError are caught (lines 472-475, 517-520); rmtree of a file
\* (NotADirectoryError) and remove of a directory (IsADirectoryError) are not, and
\* end the request with a 500.
Delete(p) ==
  /\ poll[p].pc \in {"rmtree", "remove"}
  /\ LET l == ToDelete(p[1])
         i == poll[p].i + 1
         next == [poll EXCEPT ![p] = [@ EXCEPT !.pc = "sweep", !.i = @ + 1]]
     IN IF i > Len(l) \/ ~Exists(disk, l[i])
        THEN poll' = next /\ UNCHANGED <<disk, to_delete_form, to_delete_animate>>
        ELSE IF IsDir(l[i]) # (poll[p].pc = "rmtree")
        THEN Answer(p, "500") /\ UNCHANGED <<disk, to_delete_form, to_delete_animate>>
        ELSE /\ poll' = next
             /\ disk' = [disk EXCEPT ![l[i]] = Absent]
             /\ SetToDelete(p[1], Remove(l, i))
  /\ UNCHANGED <<compose, request, now, job_queue, available_results_form,
                 available_results_animation, worker, submit, history>>

\* Lines 477-488 and 523-532, after the loop: authentication, the empty answer,
\* and the archive created with mode 'x' under the name of the current second.
\*   key_ok: the 'key' form field is present and equals API_KEY
Open(p) ==
  /\ poll[p].pc = "sweep"
  /\ poll[p].i = poll[p].n
  /\ \E key_ok \in BOOLEAN :
       IF Forbidden(key_ok) THEN Answer(p, "403") /\ UNCHANGED <<now, disk>>
       ELSE IF NothingReady(p[1])
       THEN /\ poll' = [poll EXCEPT ![p] = [@ EXCEPT !.pc = "done", !.resp = "", !.i = 0,
                                                      !.n = 0, !.key_ok = key_ok]]
            /\ UNCHANGED <<now, disk>>
       ELSE \E t \in now..MaxClock :
              LET response_path == <<"response", Second(t)>>
                  q == [poll[p] EXCEPT !.found = Results(p[1]), !.key_ok = key_ok]
              IN
              /\ now' = t
              /\ IF Exists(disk, response_path)
                 THEN /\ poll' = [poll EXCEPT ![p] =
                           [q EXCEPT !.pc = "done", !.resp = "500", !.i = 0, !.n = 0]]
                      /\ UNCHANGED disk
                 ELSE /\ disk' = [disk EXCEPT ![response_path] = 0]
                      /\ poll' = [poll EXCEPT ![p] =
                           [q EXCEPT !.pc = "drain", !.response_path = Second(t),
                                     !.i = 0, !.n = 0]]
  /\ UNCHANGED <<compose, request, queues, worker, submit, history>>

\* while qsize() > 0 (lines 489, 533); when it is not: the archive is closed,
\* scheduled for deletion (lines 497, 542) and handed to send_file.
Drain(p) ==
  /\ poll[p].pc = "drain"
  /\ IF Len(Results(p[1])) > 0
     THEN /\ poll' = [poll EXCEPT ![p] = [@ EXCEPT !.pc = "get"]]
          /\ UNCHANGED <<to_delete_form, to_delete_animate>>
     ELSE /\ SetToDelete(p[1], Append(ToDelete(p[1]), <<"response", poll[p].response_path>>))
          /\ poll' = [poll EXCEPT ![p] = [@ EXCEPT !.pc = "send"]]
  /\ UNCHANGED <<compose, request, now, disk, job_queue, available_results_form, available_results_animation,
                 worker, submit, history>>

\* What one turn of the while loop appends to the deletion list for a result
\* whose directory holds `entries` files.  /form-results appends inside the loop
\* over the files (line 493), /animation-results once, before listing them (line 535).
Scheduled(k, content_path, entries) ==
  IF k = "form" THEN Repeat(content_path, entries) ELSE <<content_path>>

\* Lines 490-493 and 534-538: get() blocks until the queue holds a result; the
\* result's files are listed and written to the archive.  os.listdir raises when
\* the directory is gone: the request ends in an error, its archive left behind.
Get(p) ==
  /\ poll[p].pc = "get"
  /\ Len(Results(p[1])) > 0
  /\ LET item == get(Results(p[1])).item IN
       /\ SetResults(p[1], get(Results(p[1])).rest)
       /\ IF Exists(disk, item.content_path)
          THEN /\ SetToDelete(p[1], ToDelete(p[1]) \o
                                    Scheduled(p[1], item.content_path, disk[item.content_path]))
               /\ poll' = [poll EXCEPT ![p] =
                            [@ EXCEPT !.pc = "drain", !.packaged = Append(@, item)]]
               /\ served' = Append(served, item)
          ELSE /\ SetToDelete(p[1], IF p[1] = "form" THEN ToDelete(p[1])
                                    ELSE Append(ToDelete(p[1]), item.content_path))
               /\ Answer(p, "500")
               /\ UNCHANGED served
  /\ UNCHANGED <<compose, request, now, disk, job_queue, worker, submit, pushed, dequeued, produced>>

\* send_file (lines 498, 544): the archive is opened and streamed to the client.
Send(p) ==
  /\ poll[p].pc = "send"
  /\ Answer(p, IF Exists(disk, <<"response", poll[p].response_path>>) THEN "archive" ELSE "500")
  /\ UNCHANGED <<compose, request, now, disk, queues, worker, submit, history>>

return_results(p) ==
  PollBegin(p) \/ Sweep(p) \/ Delete(p) \/ Open(p) \/ Drain(p) \/ Get(p) \/ Send(p)

\* ------------------------------------------------------------------ specifications
\* Every thread takes its steps one at a time, interleaved with the others' in any
\* order.  A polling thread serves one request after another, so the requests of
\* one thread never overlap; requests of different threads do.

\* One submission; one thread per polling route.
Next ==
  \/ animate_presentation("s1")
  \/ run
  \/ \E k \in Kinds : return_results(<<k, 1>>)

Spec == Init /\ [][Next]_vars

\* The same, with threads that go on: the worker thread takes its next step
\* whenever it can, and each polling route is polled again and again, every
\* request being served to its end.
SpecFair ==
  /\ Spec
  /\ WF_vars(run)
  /\ \A k \in Kinds : WF_vars(return_results(<<k, 1>>))

\* Two submissions, concurrent or one after the other; /form-results polled.
NextForm ==
  \/ \E s \in Submitters : animate_presentation(s)
  \/ run
  \/ return_results(<<"form", 1>>)

SpecForm == Init /\ [][NextForm]_vars

\* Two submissions, concurrent or one after the other; /animation-results polled.
NextAnimate ==
  \/ \E s \in Submitters : animate_presentation(s)
  \/ run
  \/ return_results(<<"animate", 1>>)

SpecAnimate == Init /\ [][NextAnimate]_vars

\* One submission; two threads serving /animation-results at the same time.
NextRace ==
  \/ animate_presentation("s1")
  \/ run
  \/ \E n \in {1, 2} : return_results(<<"animate", n>>)

SpecRace == Init /\ [][NextRace]_vars

\* One request to /upload, whatever it holds.
NextUpload == Submit("s1") \/ EnqueueAnimation("s1") \/ EnqueueNotes("s1")

SpecUpload == Init /\ [][NextUpload]_vars

\* The slides of one Animate job, one after the other, until one raises.
NextCompose == Shapes \/ Sort \/ compose_gifs \/ NextSlide

SpecCompose == Init /\ [][NextCompose]_vars

\* The request of submitter s is over and, when its jobs were enqueued, both of
\* their results have been written to an archive by a polling request.
Collected(s) ==
  /\ submit[s].pc = "done"
  /\ submit[s].resp = "jobID" =>
       \A ty \in {"A", "N"} :
         \E x \in 1..Len(served) : served[x].sub = s /\ served[x].job_type = ty

\* A client that submits again once its first submission's results have been
\* fetched from both routes; one thread per polling route.
NextAgain ==
  \/ animate_presentation("s1")
  \/ Collected("s1") /\ animate_presentation("s2")
  \/ run
  \/ \E k \in Kinds : return_results(<<k, 1>>)

SpecAgain == Init /\ [][NextAgain]_vars

\* ------------------------------------------------------------------ claims
Range(q) == {q[x] : x \in 1..Len(q)}

\* The directories a request has written to its archive so far.
Packaged(p) == {r.content_path : r \in Range(poll[p].packaged)}

Archive(p) == <<"response", poll[p].response_path>>

\* The request of thread p has created its archive and not yet handed it over.
Packaging(p) == poll[p].pc \in {"drain", "get", "send"}

\* The request of thread p has answered with an archive, and the thread's next
\* request has not begun.
Returned(p) == poll[p].pc = "done" /\ poll[p].resp = "archive"

\* C1: with the requests of one route made one after another, whatever a request
\* packages is on disk for as long as the request runs and, once it has answered
\* with its archive, until the next request of that route begins: every
\* directory it drained, and the archive itself.
C1_PackagedKeptUntilNextPoll ==
  \A k \in Kinds :
    LET p == <<k, 1>> IN
    (Packaging(p) \/ Returned(p)) =>
      /\ \A a \in Packaged(p) : Exists(disk, a)
      /\ Exists(disk, Archive(p))

\* A request has answered with an archive that holds a result, while the other
\* route's thread is in the middle of its deletion loop.
C1_Witness ==
  \E k \in Kinds : \E o \in Kinds \ {k} :
    /\ Returned(<<k, 1>>)
    /\ Packaged(<<k, 1>>) # {}
    /\ poll[<<o, 1>>].pc = "sweep" /\ poll[<<o, 1>>].i > 0

\* The deletion loop of thread p's request has run to its end.
Swept(p) == poll[p].pc = "sweep" /\ poll[p].i = poll[p].n

\* C2 (as claimed): when the deletion loop of a request has ended, nothing that
\* the route's previous request answered with and scheduled is left on disk:
\* neither a directory it drained nor its archive; and so when that request then
\* answers "nothing ready".
C2_SweptByNextPoll ==
  \A k \in Kinds :
    LET p == <<k, 1>> IN
    (Swept(p) \/ (poll[p].pc = "done" /\ poll[p].resp = "")) =>
      \A a \in poll[p].due : ~Exists(disk, a)

\* C3 (as claimed): while a request is packaging or streaming, every directory
\* it has drained and its archive are on disk, whatever other requests of the
\* same route do meanwhile.
C3_NotDeletedWhileInUse ==
  \A p \in Pollers :
    Packaging(p) =>
      /\ \A a \in Packaged(p) : Exists(disk, a)
      /\ Exists(disk, Archive(p))

\* The results still in a ResultBuffer: produced, and not yet taken by a request.
Buffered == Range(available_results_form) \cup Range(available_results_animation)

\* C4 (as claimed): the directory of every result still in either buffer is on
\* disk: no deletion loop and no step of the worker removes it before a request
\* has taken the result.
C4_BufferedOnDisk ==
  \A r \in Buffered : Exists(disk, r.content_path)

\* C5 (as claimed): a job that fails does not end the worker's loop: the worker
\* thread never stops while jobs wait in the queue behind the job it failed on.
C5_FailureLeavesWorkerRunning ==
  job_queue # <<>> => worker.pc \in {"get", "run"}

\* The job type whose results a route serves.
Serves(k) == IF k = "form" THEN "N" ELSE "A"

\* C6 (as claimed): no result is written to two archives; a buffer holds, and a
\* request packages, only results of its own kind; and a request that found its
\* buffer non-empty has, when it ends, left in it none of the results it found.
C6_PackagedExactlyOnce ==
  /\ \A x, y \in 1..Len(served) : x # y => served[x] # served[y]
  /\ \A k \in Kinds : \A r \in Range(Results(k)) : r.job_type = Serves(k)
  /\ \A p \in Pollers :
       /\ \A r \in Range(poll[p].packaged) : r.job_type = Serves(p[1])
       /\ poll[p].pc = "done" =>
            \A r \in Range(poll[p].found) : r \notin Range(Results(p[1]))

IsPrefix(a, b) == Len(a) <= Len(b) /\ \A x \in 1..Len(a) : a[x] = b[x]

\* The jobs of type ty among the dequeued, in the order they were dequeued.
DequeuedOfType(ty) == SelectSeq(dequeued, LAMBDA j : j[2] = ty)

ResultToken(r) == <<r.sub, r.job_type, r.job_id>>

\* The last n elements of q.
Newest(q, n) == SubSeq(q, Len(q) - n + 1, Len(q))

\* C7: the worker dequeues the jobs in the order they were pushed; the results of
\* each kind are put in that kind's buffer in the order their jobs were dequeued,
\* and the buffer holds the newest of them in that order.
C7_FirstInFirstOut ==
  /\ IsPrefix(dequeued, pushed)
  /\ \A k \in Kinds :
       /\ IsPrefix(produced[k], DequeuedOfType(Serves(k)))
       /\ Len(Results(k)) <= Len(produced[k])
       /\ [x \in 1..Len(Results(k)) |-> ResultToken(Results(k)[x])]
            = Newest(produced[k], Len(Results(k)))

\* Both submissions were accepted with their jobs enqueued alternately, all four
\* jobs have run, and /form-results has not taken either result yet.
C7_Witness ==
  /\ Len(pushed) = 4 /\ pushed[1][1] # pushed[2][1]
  /\ Len(dequeued) = 4
  /\ Len(produced["form"]) = 2 /\ Len(available_results_form) = 2

\* The jobs that were dequeued and have not produced their result.
Unfinished == Len(dequeued) - Len(produced["form"]) - Len(produced["animate"])

\* C8: at most one job is unfinished at any moment, and the worker dequeues a job
\* only when every job dequeued before has finished.
C8_OneJobAtATime ==
  /\ Unfinished \in {0, 1}
  /\ Unfinished = 1 <=> worker.pc \in {"run", "dead"}

\* The worker runs the third job it dequeued while another waits in the queue
\* and a polling request is packaging the result of an earlier one.
C8_Witness ==
  /\ worker.pc = "run"
  /\ Len(dequeued) = 3
  /\ job_queue # <<>>
  /\ Packaging(<<"form", 1>>)

\* The jobs of submitter s in a history of jobs, in its order.
Of(s, h) == SelectSeq(h, LAMBDA j : j[1] = s)

\* The two jobs an accepted submission pushes, in order.
Pair(s) == <<<<s, "A", submit[s].job.job_id>>, <<s, "N", submit[s].job.job_id>>>>

\* C9: a submission pushes its Animate job and then its notes/media job under
\* the same id, both of them once answered; the worker dequeues them in that
\* order, and the notes/media result is put only after the animation result.
C9_AnimateBeforeNotes ==
  \A s \in Submitters :
    /\ submit[s].pc \in {"enqueued", "done"} /\ submit[s].job.sub = s =>
         /\ IsPrefix(Of(s, pushed), Pair(s))
         /\ IsPrefix(Of(s, dequeued), Pair(s))
         /\ Of(s, produced["form"]) # <<>> => Of(s, produced["animate"]) # <<>>
    /\ submit[s].pc \in {"idle", "parsed"} => Of(s, pushed) = <<>>
    /\ submit[s].resp = "jobID" => Of(s, pushed) = Pair(s)

\* Two submissions enqueued their jobs alternately, and both jobs of the one
\* that came second have produced their results.
C9_Witness ==
  /\ Len(pushed) = 4 /\ pushed[1][1] # pushed[2][1]
  /\ Of(pushed[2][1], produced["form"]) # <<>>

\* The submission of s has more pages than images.
TooFewImages(s) ==
  /\ submit[s].job.sub = s
  /\ submit[s].job.pages > Len(submit[s].job.image_files)

\* C10: the Animate job of a submission with fewer images than pages produces
\* no result: none is put in the animation buffer, and none is written to an
\* archive.
C10_NoPartialResult ==
  \A s \in Submitters :
    TooFewImages(s) =>
      /\ \A x \in 1..Len(produced["animate"]) : produced["animate"][x][1] # s
      /\ \A r \in Range(available_results_animation) : r.sub # s
      /\ \A r \in Range(served) : ~(r.sub = s /\ r.job_type = "A")

\* The Animate job of a two-page submission with one image has run: the first
\* slide was written, and the job ended there.
C10_Witness ==
  /\ worker.pc = "dead" /\ worker.job.job_type = "A"
  /\ worker.job.pages > Len(worker.job.image_files)
  /\ disk[<<"job", worker.job.job_id>>] = 1

\* The request of submitter s has been answered with an error.
Rejected(s) == submit[s].pc = "done" /\ submit[s].resp # "jobID"

\* C11: a submission that is rejected (key absent or wrong, 'pres' missing, a
\* disallowed file name, no attached file, an unreadable document) has pushed no
\* job; and the step that rejects a submission for its key leaves the disk as it
\* was.
C11_RejectedEnqueuesNothing ==
  /\ [](\A s \in Submitters :
          Rejected(s) =>
            /\ Of(s, pushed) = <<>>
            /\ \A x \in 1..Len(job_queue) : job_queue[x].sub # s)
  /\ [][\A s \in Submitters :
          submit[s].pc = "idle" /\ submit'[s].resp = "403" => disk' = disk]_vars

\* A submission was rejected as unreadable: its document was saved before
\* python-pptx refused it, and no job was pushed.
C11_Witness ==
  /\ Rejected("s1") /\ submit["s1"].resp = "422"
  /\ \E t \in 0..MaxClock : Exists(disk, <<"pptx", t>>)
  /\ pushed = <<>>
\* compose_gifs was called for the slide and is over: it saved the composite or
\* it raised.
Called == compose.pc \in {"saved", "raised"}

\* C12: whenever the compositor is given a non-empty set of animations sorted by
\* delay, every animation gets a factor: 1 for the reference animation (the first,
\* the fastest), floor(delay / reference delay) for the others, and every factor
\* is an integer that is at least 1.
C12_FactorsFromReference ==
  Called =>
    /\ Len(compose.factors) = Len(compose.sorted)
    /\ \A k \in 1..Len(compose.factors) :
         /\ compose.factors[k] \in Nat \ {0}
         /\ k = 1 => compose.factors[k] = 1
         /\ compose.sorted[1].framedelay # 0 =>
              compose.factors[k] =
                compose.sorted[k].framedelay \div compose.sorted[1].framedelay
\* The composite of the slide was saved.
Saved == compose.pc = "saved"

\* The number of composite frames animation k needs to play all its frames:
\* its frame count times its factor.
Stretched(k) == compose.sorted[k].max_index * compose.factors[k]

Max(S) == CHOOSE x \in S : \A y \in S : y <= x

\* C13: the frame budget of a composite is the larger of the initial estimate
\* the caller gave and the largest stretched length frameCount * factor of an
\* animation; so it is at least the estimate and at least every stretched length.
C13_FrameBudget ==
  Saved =>
    /\ compose.frame_count =
         Max({compose.frame_counter}
               \cup {Stretched(k) : k \in 1..Len(compose.sorted)})
    /\ compose.frame_count >= compose.frame_counter
    /\ \A k \in 1..Len(compose.sorted) : compose.frame_count >= Stretched(k)

\* A slower animation's stretched length raised the budget above the estimate.
C13_Witness ==
  /\ Saved
  /\ compose.frame_count > compose.frame_counter
  /\ \E k \in 2..Len(compose.sorted) :
       compose.factors[k] > 1 /\ compose.frame_count = Stretched(k)
\* The frame of animation k that frame t of the composite shows (t counts from 0).
Sampled(k, t) == compose.seeks[t + 1][k]

\* C14: in every frame t of the composite, 0 <= t < frame budget, an animation
\* with factor f and n frames shows its frame t // f while t < n * f and its last
\* frame n - 1 from then on; the frame shown is always one of 0..n-1, it never
\* goes back to an earlier frame and never lies past the end.
C14_SampledFrame ==
  Saved =>
    \A k \in 1..Len(compose.sorted) :
      LET n == compose.sorted[k].max_index
          f == compose.factors[k]
      IN /\ Len(compose.seeks) = compose.frame_count
         /\ \A t \in 0..(compose.frame_count - 1) :
              /\ t < n * f => Sampled(k, t) = t \div f
              /\ t >= n * f => Sampled(k, t) = n - 1
              /\ Sampled(k, t) \in 0..(n - 1)
              /\ t > 0 => Sampled(k, t - 1) <= Sampled(k, t)

\* A fast animation of several frames has ended and holds its last frame while a
\* slower one is still playing.
C14_Witness ==
  /\ Saved
  /\ \E k \in 1..Len(compose.sorted) :
       /\ compose.sorted[k].max_index > 1
       /\ Stretched(k) < compose.frame_count
       /\ Sampled(k, compose.frame_count - 1) = compose.sorted[k].max_index - 1
       /\ Sampled(k, Stretched(k) - 1) = Sampled(k, Stretched(k))

\* C15: no animation is cut short: each of its frames 0..n-1 is shown, and before
\* the hold of the last frame begins each is shown in exactly factor consecutive
\* frames of the composite.
C15_NoTruncation ==
  Saved =>
    \A k \in 1..Len(compose.sorted) :
      LET n == compose.sorted[k].max_index
          f == compose.factors[k]
      IN \A m \in 0..(n - 1) :
           {t \in 0..(compose.frame_count - 1) : t < n * f /\ Sampled(k, t) = m}
             = (m * f)..((m + 1) * f - 1)

\* A slow animation of several frames, each shown more than once, on a slide whose
\* estimate was smaller than its stretched length.
C15_Witness ==
  /\ Saved
  /\ \E k \in 1..Len(compose.sorted) :
       /\ compose.sorted[k].max_index > 1
       /\ compose.factors[k] > 1
       /\ Stretched(k) > compose.frame_counter
       /\ Sampled(k, Stretched(k) - 1) = compose.sorted[k].max_index - 1
       /\ Sampled(k, Stretched(k) - compose.factors[k]) = compose.sorted[k].max_index - 1
\* The same pictures, put on the slide in any other order.
Reordered(gifs) ==
  LET n == Len(gifs)
  IN {[k \in 1..n |-> gifs[p[k]]] :
        p \in {q \in [1..n -> 1..n] : \A a, b \in 1..n : q[a] = q[b] => a = b}}

\* C16: the composite of a slide does not depend on the order in which its
\* animations were put on it, also when animations of equal delay overlap: every
\* order of the same pictures gives the same frames.
C16_InsertionOrderIrrelevant ==
  Saved =>
    \A gifs \in Reordered(compose.gifs) :
      Composite(sorted(gifs), frame_counter(gifs)).frames = compose.frames
\* The slide has been dealt with: its image was copied, its composite was saved,
\* or compose_gifs raised.
Over == compose.pc \in {"static", "saved", "raised"}

\* C17: a slide without animations, or whose animations all have one frame, gives
\* its static background, unchanged, and never an animation of one frame; every
\* other slide gives a composite of at least two frames.
C17_StaticOrAnimated ==
  Over =>
    IF compose.gifs = <<>>
       \/ \A k \in 1..Len(compose.gifs) : compose.gifs[k].max_index = 1
    THEN compose.pc = "static" /\ compose.frames = <<>>
    ELSE compose.pc = "saved" /\ Len(compose.frames) >= 2
\* For how long the composite, played with the saved duration per frame, shows
\* frame m of animation k before the hold of its last frame begins.
Displayed(k, m) ==
  Cardinality({t \in 0..(compose.frame_count - 1) :
                 t < Stretched(k) /\ Sampled(k, t) = m}) * compose.duration

\* C18 as stated: every frame of every animation is displayed for that animation's
\* own delay, whatever the delays are.
C18_NativeDelayKept ==
  Saved =>
    \A k \in 1..Len(compose.sorted) :
      \A m \in 0..(compose.sorted[k].max_index - 1) :
        Displayed(k, m) = compose.sorted[k].framedelay

\* C18: the composite is played at the reference animation's delay per frame, and
\* every frame of an animation is displayed for factor * reference delay, which
\* is the animation's own delay rounded down to a multiple of the reference
\* delay: its own delay exactly when that is a multiple of the reference delay,
\* and less than it, by less than one reference delay, otherwise.
C18_DelayRoundedDown ==
  Saved =>
    /\ compose.duration = compose.sorted[1].framedelay
    /\ \A k \in 1..Len(compose.sorted) :
         LET delay == compose.sorted[k].framedelay IN
         \A m \in 0..(compose.sorted[k].max_index - 1) :
           /\ Displayed(k, m) = compose.factors[k] * compose.duration
           /\ Displayed(k, m) = delay - (delay % compose.duration)
           /\ Displayed(k, m) = delay <=> delay % compose.duration = 0
           /\ delay - Displayed(k, m) < compose.duration

\* An animation whose delay is not a multiple of the reference delay was
\* composited and plays faster than it did.
C18_Witness ==
  /\ Saved
  /\ \E k \in 1..Len(compose.sorted) :
       /\ compose.sorted[k].framedelay % compose.duration # 0
       /\ compose.sorted[k].max_index > 1
       /\ Displayed(k, 0) < compose.sorted[k].framedelay
\* Request p has swept, and its next step, which is not the answer 403 to a request
\* without the right key, finds the buffer of its kind empty.
FindsNothing(p) ==
  /\ poll[p].pc = "sweep" /\ poll[p].i = poll[p].n
  /\ Results(p[1]) = <<>>
  /\ poll'[p] # poll[p]
  /\ poll'[p].resp # "403"

\* C19: a poll that passes the authentication and finds the buffer of its kind
\* empty answers "nothing ready", which is no error; it creates no archive, adds
\* nothing to the deletion list after its sweep and leaves the buffer as it was.
C19_NothingReady ==
  [][\A p \in Pollers :
       FindsNothing(p) =>
         /\ poll'[p].pc = "done" /\ poll'[p].resp = ""
         /\ disk' = disk
         /\ to_delete_form' = to_delete_form /\ to_delete_animate' = to_delete_animate
         /\ available_results_form' = available_results_form
         /\ available_results_animation' = available_results_animation]_vars

\* The poll after one that returned an archive: it swept what that one had
\* scheduled, found nothing new and answered "nothing ready".
C19_Witness ==
  \E k \in Kinds :
    /\ poll[<<k, 1>>].pc = "done" /\ poll[<<k, 1>>].resp = ""
    /\ poll[<<k, 1>>].due # {}
    /\ Results(k) = <<>>
Other(k) == IF k = "form" THEN "animate" ELSE "form"

\* C20: the two kinds are independent at poll time.  No step of a poll of one
\* kind removes a result from the other kind's buffer, adds an entry to or removes
\* one from the other kind's deletion list, or deletes from the disk anything that
\* list names.
C20_KindsIndependent ==
  [][\A p \in Pollers :
       poll'[p] # poll[p] =>
         LET o == Other(p[1]) IN
         /\ IF o = "form"
            THEN /\ available_results_form' = available_results_form
                 /\ to_delete_form' = to_delete_form
            ELSE /\ available_results_animation' = available_results_animation
                 /\ to_delete_animate' = to_delete_animate
         /\ \A x \in 1..Len(ToDelete(o)) :
              Exists(disk, ToDelete(o)[x]) => Exists(disk', ToDelete(o)[x])]_vars

\* A poll of one kind is deleting what its predecessor scheduled while the other
\* kind has a result in its buffer and a file, still on the disk, in its list.
C20_Witness ==
  \E k \in Kinds :
    /\ poll[<<k, 1>>].pc = "sweep" /\ poll[<<k, 1>>].i > 0
    /\ poll[<<k, 1>>].due # {}
    /\ \E path \in poll[<<k, 1>>].due : ~Exists(disk, path)
    /\ Results(Other(k)) # <<>>
    /\ \E x \in 1..Len(ToDelete(Other(k))) : Exists(disk, ToDelete(Other(k))[x])
\* The answers the claim allows to the request r of a client with the right key:
\* the class of a failure r has, or a jobID if it has none.  A request has no
\* snapshot image when none of the files attached to it is an image.
Allowed(r) ==
  LET missing == r.pres = "missing" \/ r.images = 0
      unprocessable == r.pres \in {"not_pptx", "unreadable"}
  IN (IF missing THEN {"400"} ELSE {})
       \cup (IF unprocessable THEN {"422"} ELSE {})
       \cup (IF ~missing /\ ~unprocessable THEN {"jobID"} ELSE {})

\* C21: the answer to a submission is determined by what is wrong with it: 403
\* when the key is absent or wrong, whatever else is; otherwise 400 for a missing
\* document field or no snapshot image, 422 for a document of the wrong extension
\* or one that cannot be read, and a jobID only when nothing is wrong.
C21_OutcomeByFailure ==
  \A s \in Submitters :
    submit[s].pc = "done" =>
      IF request[s].key # "right" THEN submit[s].resp = "403"
      ELSE submit[s].resp \in Allowed(request[s])
\* The submission of thread s was given its job id (line 438).
HasJobId(s) == submit[s].pc = "enqueued" \/ submit[s].resp = "jobID"

\* C22: job ids are unique: two accepted submissions, also concurrent ones that
\* read the clock at the same instant, never get the same job id, so no two jobs
\* of a kind share an id or the directory named after it.
C22_UniqueJobIds ==
  \A s, t \in Submitters :
    s # t /\ HasJobId(s) /\ HasJobId(t) => submit[s].job.job_id # submit[t].job.job_id
\* The notes/media jobs that have not read their document yet: those in the
\* queue and the one the worker has taken and not finished.
Unread ==
  {job_queue[x] : x \in {y \in 1..Len(job_queue) : job_queue[y].job_type = "N"}}
    \cup (IF worker.pc = "run" /\ worker.job.job_type = "N" THEN {worker.job} ELSE {})

\* C23: the uploaded document of a submission is not deleted before the
\* submission's notes/media job has read it, however the worker's steps and the
\* polls of /animation-results interleave.
C23_DocumentKeptForNotesJob ==
  \A j \in Unread : Exists(disk, <<"pptx", j.hashpath>>)
\* Request p is inside get() on an empty queue: it goes on only when the worker
\* has put a new result.
Waits(p) == poll[p].pc = "get" /\ Results(p[1]) = <<>>

\* C24: no poll waits for the worker to produce a result, also when two polls of
\* a kind interleave between the test of the buffer's size and the pop: every poll
\* ends, with "nothing ready" or an archive, on what the buffer holds.
C24_PollNeverWaits == \A p \in Pollers : ~Waits(p)
\* Request p has swept, and its next step, which is not the answer 403 to a request
\* without the right key, finds a result in the buffer of its kind.
FindsSomething(p) ==
  /\ poll[p].pc = "sweep" /\ poll[p].i = poll[p].n
  /\ Results(p[1]) # <<>>
  /\ poll'[p] # poll[p]
  /\ poll'[p].resp # "403"

\* C25: a poll that finds its buffer non-empty creates its archive: the name it
\* chooses is not that of an archive still on the disk from an earlier poll of
\* either kind, also when the two polls fall into the same second.
C25_ArchiveCreated ==
  [][\A p \in Pollers :
       FindsSomething(p) =>
         /\ poll'[p].pc = "drain"
         /\ ~Exists(disk, <<"response", poll'[p].response_path>>)
         /\ Exists(disk', <<"response", poll'[p].response_path>>)]_vars
\* C26: no entry stays in a deletion list for ever: while a route keeps being
\* polled and no new result of its kind arrives, its list becomes empty, also
\* when a directory holds several files or an entry's file is already gone.  With
\* one submission no result arrives after its two, so each list is empty again
\* and again.
C26_DeletionListDrains == \A k \in Kinds : []<>(ToDelete(k) = <<>>)
\* Request p is inside its deletion loop.
Sweeping(p) ==
  \/ poll[p].pc = "sweep" /\ poll[p].i < poll[p].n
  \/ poll[p].pc \in {"rmtree", "remove"}

\* C27: the deletion loop never fails a poll: whatever the list holds (entries
\* whose file is gone, entries twice, entries removed while the loop runs), every
\* step of the loop leaves the request in the loop or at its end, from where it
\* goes on to the authentication; no error comes out of it.
C27_SweepNeverFails ==
  [][\A p \in Pollers :
       Sweeping(p) => poll'[p].pc \in {"sweep", "rmtree", "remove"}]_vars
\* Request p has swept, and its next step finds that its key is not the right one.
FailsAuth(p) ==
  /\ poll[p].pc = "sweep" /\ poll[p].i = poll[p].n
  /\ poll'[p] # poll[p]
  /\ ~poll'[p].key_ok

\* C28: a poll that fails the authentication takes nothing from the buffer,
\* creates no archive and appends nothing to the deletion list; all it can have
\* changed is what its deletion loop, which runs before the authentication,
\* deleted: and a step of that loop only deletes files and removes entries.
C28_FailedAuthOnlySweeps ==
  [][\A p \in Pollers :
       /\ FailsAuth(p) =>
            /\ poll'[p].pc = "done" /\ poll'[p].resp = "403"
            /\ poll'[p].packaged = <<>> /\ poll'[p].found = <<>>
            /\ disk' = disk
            /\ to_delete_form' = to_delete_form /\ to_delete_animate' = to_delete_animate
            /\ available_results_form' = available_results_form
            /\ available_results_animation' = available_results_animation
       /\ Sweeping(p) /\ poll'[p] # poll[p] =>
            /\ available_results_form' = available_results_form
            /\ available_results_animation' = available_results_animation
            /\ \A path \in Paths : Exists(disk', path) => Exists(disk, path)
            /\ Len(to_delete_form') <= Len(to_delete_form)
            /\ Len(to_delete_animate') <= Len(to_delete_animate)
            /\ Range(to_delete_form') \subseteq Range(to_delete_form)
            /\ Range(to_delete_animate') \subseteq Range(to_delete_animate)]_vars

\* A request without the right key found a result waiting: its loop deleted the
\* document the finished job had scheduled, and the result is still in the buffer.
C28_Witness ==
  /\ poll[<<"animate", 1>>].pc = "done" /\ poll[<<"animate", 1>>].resp = "403"
  /\ ~poll[<<"animate", 1>>].key_ok
  /\ available_results_animation # <<>>
  /\ to_delete_animate = <<>>
  /\ ~Exists(disk, <<"pptx", submit["s1"].job.hashpath>>)
====
